---- MODULE Spec2Model ----
(***************************************************************************)
(* A model of cmd/android.go of nanokinetics/matcha: the toolchain         *)
(* resolver (toolchainForArch), the platform locator (AndroidAPIPath),     *)
(* the class archive builder (BuildJar) and the bundle assembler           *)
(* (BuildAAR).                                                             *)
(*                                                                         *)
(* Strings that the code takes apart or builds are sequences: a directory  *)
(* name is a sequence of one-character strings (so that strings.HasPrefix  *)
(* and strconv.Atoi are computed, not assumed), a path or an entry name is *)
(* the sequence of the parts the code joins.                               *)
(*                                                                         *)
(* Every call into the operating system, the zip writer or the external    *)
(* compiler may fail: the outcome is drawn with \E at the step.            *)
(***************************************************************************)
EXTENDS Integers, Sequences, FiniteSets, TLC

VARIABLES
    \* ---- BuildAAR / BuildJar ----
    BuildN,        \* flags.BuildN
    pkgs,          \* pkgs []*build.Package, with the assets tree of each
    androidArchs,  \* androidArchs []string
    pc,            \* position in BuildAAR / BuildJar
    err,           \* BuildAAR's named result err
    entries,       \* names given to aarw.Create so far, in order
    files,         \* files map[string]string (asset name -> ImportPath)
    pkgIdx,        \* index of the range loop over pkgs
    walkIdx,       \* position of filepath.Walk in the assets tree (0: not walking)
    archIdx,       \* index of the range loop over androidArchs
    deferred,      \* handles whose Close BuildAAR has deferred
    aarClosed,     \* aarw.Close() returned nil
    outCreated,    \* os.Create(aarPath) made the output file
    mkdirDone,     \* os.MkdirAll(dst) ran
    javacRan,      \* the external compiler was executed
    srcFiles,      \* BuildJar's srcFiles
    classTree,     \* what filepath.Walk(dst) visits
    jarIdx,        \* position of filepath.Walk(dst)
    jarEntries,    \* names given to jarw.Create so far
    jarClosed,     \* jarw.Close() returned nil
    jarErr,        \* BuildJar's result
    stepFailed,    \* history: a step of BuildAAR has returned an error
    \* ---- AndroidAPIPath ----
    dirEntries,    \* the entries of $ANDROID_HOME/platforms (file system)
    apc,           \* position in AndroidAPIPath
    fis,           \* fis, the listing Readdir returned
    fiIdx,         \* index of the range loop over fis
    apiPath,       \* apiPath
    apiVer,        \* apiVer
    apiErr,        \* AndroidAPIPath's error result
    \* ---- toolchainForArch ----
    goarch,        \* the argument
    GOOS,          \* runtime.GOOS
    GOARCH,        \* runtime.GOARCH
    ANDROID_HOME,  \* os.Getenv("ANDROID_HOME"), <<>> when unset
    ndkDir,        \* what is at $ANDROID_HOME/ndk-bundle: "missing", "file", "dir"
    tpc,           \* position in toolchainForArch
    toolchain,     \* the *ndkToolchain being filled in / returned
    tcErr,         \* toolchainForArch's error result
    \* ---- shared ----
    handles        \* the file and directory handles that are open

aarVars == <<BuildN, pkgs, androidArchs, pc, err, entries, files, pkgIdx, walkIdx,
             archIdx, deferred, aarClosed, outCreated, mkdirDone, javacRan, srcFiles,
             classTree, jarIdx, jarEntries, jarClosed, jarErr, stepFailed>>
apiVars == <<dirEntries, apc, fis, fiIdx, apiPath, apiVer, apiErr>>
apiLocals == <<fis, fiIdx, apiPath, apiVer, apiErr>>
tcVars  == <<goarch, GOOS, GOARCH, ANDROID_HOME, ndkDir, tpc, toolchain, tcErr>>
vars    == <<aarVars, apiVars, tcVars, handles>>

-----------------------------------------------------------------------------
(* Bounds of the model *)

MaxFis   == 3   \* entries in the platforms directory
MaxPkgs  == 2   \* packages handed to BuildAAR
MaxArchs == 2   \* architectures handed to BuildAAR

-----------------------------------------------------------------------------
(* Errors.  One record shape for all of them, so that they compare. *)

Error(kind) == [kind |-> kind, name |-> <<>>, pkg |-> "", orig |-> ""]
Nil == Error("nil")
\* fmt.Errorf("package %s asset name conflict: %s already added from package %s", ...)
ConflictError(pkg, name, orig) ==
    [kind |-> "conflict", name |-> name, pkg |-> pkg, orig |-> orig]

-----------------------------------------------------------------------------
(* toolchainForArch, ndkRoot, androidHostTag *)

NoToolchain == [arch |-> "", platform |-> "", ndkRoot |-> <<>>, hostTag |-> <<>>]

\* the map m of toolchainForArch (the fields the claims read)
ToolchainTable ==
    ("arm"   :> [arch |-> "arm",    platform |-> "android-15", ndkRoot |-> <<>>, hostTag |-> <<>>]) @@
    ("arm64" :> [arch |-> "arm64",  platform |-> "android-21", ndkRoot |-> <<>>, hostTag |-> <<>>]) @@
    ("386"   :> [arch |-> "x86",    platform |-> "android-15", ndkRoot |-> <<>>, hostTag |-> <<>>]) @@
    ("amd64" :> [arch |-> "x86_64", platform |-> "android-21", ndkRoot |-> <<>>, hostTag |-> <<>>])

\* a host tag that falls back to GOOS-GOARCH instead of failing
HostTagWithFallback(os, cpu) ==
    IF os = "windows" /\ cpu = "386"
    THEN [err |-> Nil, tag |-> <<"windows">>]
    ELSE IF cpu = "386" THEN [err |-> Nil, tag |-> <<os, "-", "x86">>]
    ELSE IF cpu = "amd64" THEN [err |-> Nil, tag |-> <<os, "-", "x86_64">>]
    ELSE [err |-> Nil, tag |-> <<os, "-", cpu>>]

androidHostTag(os, cpu) ==
    IF os = "windows" /\ cpu = "386"
    THEN [err |-> Nil, tag |-> <<"windows">>]
    ELSE IF cpu = "386" THEN [err |-> Nil, tag |-> <<os, "-", "x86">>]
    ELSE IF cpu = "amd64" THEN [err |-> Nil, tag |-> <<os, "-", "x86_64">>]
    ELSE [err |-> Error("unsupported GOARCH"), tag |-> <<>>]

\* absOk: filepath.Abs succeeded.  The path is the join of its parts.
ndkRoot(sdkHome, absOk, dir) ==
    IF sdkHome = <<>> THEN [err |-> Error("ANDROID_HOME unset"), path |-> <<>>]
    ELSE IF ~absOk THEN [err |-> Error("cleaning path"), path |-> <<>>]
    ELSE IF dir # "dir" THEN [err |-> Error("missing directory"), path |-> <<>>]
    ELSE [err |-> Nil, path |-> sdkHome \o <<"ndk-bundle">>]

GoArchs   == {"arm", "arm64", "386", "amd64", "mips", ""}
HostOSes  == {"linux", "darwin", "windows"}
HostCPUs  == {"386", "amd64", "arm64", "arm"}
SdkHomes  == {<<>>, <<"/sdk">>}
NdkDirs   == {"missing", "file", "dir"}

TCIdle ==
    /\ goarch = "" /\ GOOS = "linux" /\ GOARCH = "amd64"
    /\ ANDROID_HOME = <<>> /\ ndkDir = "missing"
    /\ tpc = "idle" /\ toolchain = NoToolchain /\ tcErr = Nil

TCInit ==
    /\ goarch \in GoArchs /\ GOOS \in HostOSes /\ GOARCH \in HostCPUs
    /\ ANDROID_HOME \in SdkHomes /\ ndkDir \in NdkDirs
    /\ tpc = "lookup" /\ toolchain = NoToolchain /\ tcErr = Nil

TCReturn(tc, e) ==
    /\ toolchain' = tc
    /\ tcErr' = e
    /\ tpc' = "done"

\* toolchain, ok := m[goarch]; if !ok { return nil, ... }
TC_Lookup ==
    /\ tpc = "lookup"
    /\ IF goarch \in DOMAIN ToolchainTable
       THEN /\ toolchain' = ToolchainTable[goarch]
            /\ tpc' = "ndkRoot"
            /\ UNCHANGED tcErr
       ELSE TCReturn(NoToolchain, Error("unknown arch"))
    /\ UNCHANGED <<goarch, GOOS, GOARCH, ANDROID_HOME, ndkDir, aarVars, apiVars, handles>>

\* ndkRoot, err := ndkRoot(); if err != nil { return nil, err }
TC_NdkRoot ==
    /\ tpc = "ndkRoot"
    /\ \E absOk \in BOOLEAN :
         LET r == ndkRoot(ANDROID_HOME, absOk, ndkDir) IN
         IF r.err # Nil
         THEN TCReturn(NoToolchain, r.err)
         ELSE /\ toolchain' = [toolchain EXCEPT !.ndkRoot = r.path]
              /\ tpc' = "hostTag"
              /\ UNCHANGED tcErr
    /\ UNCHANGED <<goarch, GOOS, GOARCH, ANDROID_HOME, ndkDir, aarVars, apiVars, handles>>

\* hostTag, err := androidHostTag(); if err != nil { return nil, err }
TC_HostTag ==
    /\ tpc = "hostTag"
    /\ LET r == androidHostTag(GOOS, GOARCH) IN
       IF r.err # Nil
       THEN TCReturn(NoToolchain, r.err)
       ELSE TCReturn([toolchain EXCEPT !.hostTag = r.tag], Nil)
    /\ UNCHANGED <<goarch, GOOS, GOARCH, ANDROID_HOME, ndkDir, aarVars, apiVars, handles>>

-----------------------------------------------------------------------------
(* AndroidAPIPath *)

minAndroidAPI == 15

Digits == {"0", "1", "2", "3", "4", "5", "6", "7", "8", "9"}
DigitVal(c) ==
    CASE c = "0" -> 0 [] c = "1" -> 1 [] c = "2" -> 2 [] c = "3" -> 3 [] c = "4" -> 4
      [] c = "5" -> 5 [] c = "6" -> 6 [] c = "7" -> 7 [] c = "8" -> 8 [] c = "9" -> 9

RECURSIVE DecimalValue(_)
DecimalValue(s) ==
    IF s = <<>> THEN 0
    ELSE 10 * DecimalValue(SubSeq(s, 1, Len(s) - 1)) + DigitVal(s[Len(s)])

\* strconv.Atoi: an optional sign, then one or more decimal digits.
\* (The names of the model are far shorter than the 19 digits at which it
\* reports a range error.)
Atoi(s) ==
    LET signed == s # <<>> /\ s[1] \in {"+", "-"}
        body   == IF signed THEN Tail(s) ELSE s
    IN  IF body = <<>> \/ \E i \in 1..Len(body) : body[i] \notin Digits
        THEN [err |-> TRUE, n |-> 0]
        ELSE [err |-> FALSE,
              n |-> IF signed /\ s[1] = "-" THEN 0 - DecimalValue(body)
                    ELSE DecimalValue(body)]

HasPrefix(s, prefix) ==
    Len(s) >= Len(prefix) /\ SubSeq(s, 1, Len(prefix)) = prefix

AndroidPrefix == <<"a", "n", "d", "r", "o", "i", "d", "-">>

\* sdkDir.Name(): filepath.Join(sdk, "platforms")
SdkDirName == <<"/sdk", "platforms">>

\* the loop body without the floor test
ScanStepNoFloor(acc, fi) ==
    IF ~fi.isDir \/ ~HasPrefix(fi.name, AndroidPrefix) THEN acc
    ELSE LET a == Atoi(SubSeq(fi.name, Len(AndroidPrefix) + 1, Len(fi.name))) IN
         IF a.err THEN acc
         ELSE IF fi.hasJar /\ acc.apiVer < a.n
              THEN [apiPath |-> SdkDirName \o <<fi.name>>, apiVer |-> a.n]
              ELSE acc

\* the loop body without the comparison with the best version so far
ScanStepLastWins(acc, fi) ==
    IF ~fi.isDir \/ ~HasPrefix(fi.name, AndroidPrefix) THEN acc
    ELSE LET a == Atoi(SubSeq(fi.name, Len(AndroidPrefix) + 1, Len(fi.name))) IN
         IF a.err \/ a.n < minAndroidAPI THEN acc
         ELSE IF fi.hasJar
              THEN [apiPath |-> SdkDirName \o <<fi.name>>, apiVer |-> a.n]
              ELSE acc

\* one iteration of "for _, fi := range fis"; fi.hasJar: os.Stat of
\* <p>/android.jar succeeds
ScanStep(acc, fi) ==
    IF ~fi.isDir \/ ~HasPrefix(fi.name, AndroidPrefix) THEN acc
    ELSE LET a == Atoi(SubSeq(fi.name, Len(AndroidPrefix) + 1, Len(fi.name))) IN
         IF a.err \/ a.n < minAndroidAPI THEN acc
         ELSE IF fi.hasJar /\ acc.apiVer < a.n
              THEN [apiPath |-> SdkDirName \o <<fi.name>>, apiVer |-> a.n]
              ELSE acc

\* the whole loop over a listing
RECURSIVE ScanAll(_, _)
ScanAll(acc, listing) ==
    IF listing = <<>> THEN acc
    ELSE ScanAll(ScanStep(acc, Head(listing)), Tail(listing))

ScanStart == [apiPath |-> <<>>, apiVer |-> 0]

\* the orders in which Readdir(-1) may list a directory
RECURSIVE Orders(_)
Orders(dir) ==
    IF dir = {} THEN {<<>>}
    ELSE UNION {{<<fi>> \o rest : rest \in Orders(dir \ {fi})} : fi \in dir}

NamePool ==
    { AndroidPrefix \o <<"1", "0">>,
      AndroidPrefix \o <<"1", "5">>,
      AndroidPrefix \o <<"2", "1">>,
      AndroidPrefix \o <<"0", "2", "1">>,
      AndroidPrefix \o <<"x">>,
      AndroidPrefix,
      <<"a", "d", "d", "-", "2", "1">> }

\* a directory entry: a platform with its android.jar, a directory without
\* it, or a plain file
EntryPool ==
    {[name |-> n, isDir |-> k[1], hasJar |-> k[2]] :
        n \in NamePool, k \in {<<TRUE, TRUE>>, <<TRUE, FALSE>>, <<FALSE, FALSE>>}}

\* the directories of at most n entries; names are unique in a directory
Directories(n) ==
    {d \in SUBSET EntryPool :
        /\ Cardinality(d) <= n
        /\ \A a, b \in d : a.name = b.name => a = b}

SdkDirHandle == <<"sdkDir">>

APIIdle ==
    /\ apc = "idle" /\ fis = <<>> /\ fiIdx = 0
    /\ apiPath = <<>> /\ apiVer = 0 /\ apiErr = Nil

APIInit ==
    /\ dirEntries \in Directories(MaxFis)
    /\ apc = "start" /\ fis = <<>> /\ fiIdx = 0
    /\ apiPath = <<>> /\ apiVer = 0 /\ apiErr = Nil

\* sdk := os.Getenv(...); sdkDir, err := os.Open(...); defer sdkDir.Close()
API_Open ==
    /\ apc = "start"
    /\ \E sdkSet, openOk \in BOOLEAN :
         IF ~sdkSet
         THEN /\ apiErr' = Error("ANDROID_HOME not set")
              /\ apc' = "done"
              /\ UNCHANGED handles
         ELSE IF ~openOk
         THEN /\ apiErr' = Error("open platforms")
              /\ apc' = "done"
              /\ UNCHANGED handles
         ELSE /\ handles' = handles \cup {SdkDirHandle}
              /\ apc' = "readdir"
              /\ UNCHANGED apiErr
    /\ UNCHANGED <<dirEntries, fis, fiIdx, apiPath, apiVer, aarVars, tcVars>>

\* the deferred sdkDir.Close()
CloseSdkDir(hs) == hs \ {SdkDirHandle}

\* fis, err := sdkDir.Readdir(-1)
API_Readdir ==
    /\ apc = "readdir"
    /\ \E ok \in BOOLEAN :
         IF ~ok
         THEN /\ apiErr' = Error("readdir")
              /\ apc' = "done"
              /\ handles' = CloseSdkDir(handles)
              /\ UNCHANGED <<fis, fiIdx>>
         ELSE \E listing \in Orders(dirEntries) :
              /\ fis' = listing
              /\ fiIdx' = 1
              /\ apc' = "loop"
              /\ UNCHANGED <<apiErr, handles>>
    /\ UNCHANGED <<dirEntries, apiPath, apiVer, aarVars, tcVars>>

\* for _, fi := range fis { ... }
API_LoopStep ==
    /\ apc = "loop"
    /\ fiIdx <= Len(fis)
    /\ LET acc == ScanStep([apiPath |-> apiPath, apiVer |-> apiVer], fis[fiIdx]) IN
       /\ apiPath' = acc.apiPath
       /\ apiVer' = acc.apiVer
    /\ fiIdx' = fiIdx + 1
    /\ UNCHANGED <<dirEntries, apc, fis, apiErr, aarVars, tcVars, handles>>

\* if apiVer == 0 { return "", ... }; return apiPath, nil
API_Return ==
    /\ apc = "loop"
    /\ fiIdx > Len(fis)
    /\ IF apiVer = 0
       THEN apiErr' = Error("no platform") /\ apiPath' = <<>>
       ELSE apiErr' = Nil /\ UNCHANGED apiPath
    /\ handles' = CloseSdkDir(handles)
    /\ apc' = "done"
    /\ UNCHANGED <<dirEntries, fis, fiIdx, apiVer, aarVars, tcVars>>

-----------------------------------------------------------------------------
(* BuildAAR and BuildJar: names, inputs *)

GetAndroidABI(arch) ==
    CASE arch = "arm"   -> "armeabi-v7a"
      [] arch = "arm64" -> "arm64-v8a"
      [] arch = "386"   -> "x86"
      [] arch = "amd64" -> "x86_64"
      [] OTHER          -> ""

\* "jni/" + GetAndroidABI(arch) + "/libgojni.so"
JniName(arch) == <<"jni", GetAndroidABI(arch), "libgojni.so">>
\* "assets/" + path[len(assetsDir)+1:]
AssetName(rel) == <<"assets", rel>>

ManifestName == <<"AndroidManifest.xml">>
ProguardName == <<"proguard.txt">>
ClassesName  == <<"classes.jar">>
RTxtName     == <<"R.txt">>
ResName      == <<"res/">>
JarManifestName == <<"META-INF", "MANIFEST.MF">>

OutHandle == <<"out">>
JniHandle(i) == <<"jniLib", i>>
AssetHandle(i, rel) == <<"asset", i, rel>>
ClassHandle(i) == <<"class", i>>

\* a package with what is at <pkg.Dir>/assets: nothing, something that is no
\* directory, or a tree whose regular files filepath.Walk visits in lexical order
Pkg(path, kind, tree) == [ImportPath |-> path, assets |-> kind, assetFiles |-> tree]
PackagePool ==
    { Pkg("A", "none", <<>>), Pkg("A", "notdir", <<>>),
      Pkg("A", "dir", <<"x.png">>), Pkg("A", "dir", <<"x.png", "y.png">>),
      Pkg("B", "none", <<>>),
      Pkg("B", "dir", <<"x.png">>), Pkg("B", "dir", <<"y.png">>) }

\* the package lists of 1..n packages (pkgs[0] is the primary package); one
\* import path names one package
PkgLists(n) ==
    {s \in UNION {[1..k -> PackagePool] : k \in 1..n} :
        \A i, j \in DOMAIN s : s[i].ImportPath = s[j].ImportPath => s[i] = s[j]}

ArchPool == {"arm", "mips"}
ArchLists(n) == UNION {[1..k -> ArchPool] : k \in 0..n}

\* what filepath.Walk(assetsDir) visits: the root, then the files
WalkList(pkg) ==
    <<[rel |-> "", isDir |-> TRUE]>> \o
    [i \in 1..Len(pkg.assetFiles) |-> [rel |-> pkg.assetFiles[i], isDir |-> FALSE]]

\* what filepath.Walk(dst) visits after a compilation
ClassTrees ==
    { <<[rel |-> "", isDir |-> TRUE], [rel |-> "Go.class", isDir |-> FALSE]>> }
SrcTrees == { <<"Go.java">> }

\* the platforms directories BuildAAR is run against
BuildDirectories ==
    { {}, {[name |-> AndroidPrefix \o <<"2", "1">>, isDir |-> TRUE, hasJar |-> TRUE]} }

\* RunCmd(flags, tmpdir, cmd) executes cmd unless flags asks for a dry run
RunCmdExecutes(flagsBuildN) == ~flagsBuildN
\* the BuildN of the &Flags{} that BuildJar hands to RunCmd
JavacFlagsBuildN == FALSE

\* if err != nil { return err }
IgnoreError(ok, next) == next
AbortOnError(ok, next) == IF ok THEN next ELSE "ret"

\* orig, exists := files[name]
NeverExists(reg, name) == FALSE
Exists(reg, name) == \E r \in reg : r.name = name
Orig(reg, name) == (CHOOSE r \in reg : r.name = name).pkg

\* the deferred Close of a Walk callback, run when the callback returns
ClosureDefer(hs, h) == hs \ {h}

\* the deferred calls of BuildAAR (f.Close, each r.Close), run at its return
RunDeferredOutputOnly(hs, ds) == hs \ (ds \cap {OutHandle})
RunDeferred(hs, ds) == hs \ ds

AfterAssets == IF Len(androidArchs) = 0 THEN "rtxt" ELSE "jni"

aarIn    == <<BuildN, pkgs, androidArchs>>
aarLoop  == <<files, pkgIdx, walkIdx, archIdx>>
jarState == <<mkdirDone, javacRan, srcFiles, classTree, jarIdx, jarEntries, jarClosed, jarErr>>

AARIdle ==
    /\ BuildN = FALSE /\ pkgs = <<>> /\ androidArchs = <<>>
    /\ pc = "idle" /\ err = Nil /\ entries = <<>> /\ files = {}
    /\ pkgIdx = 0 /\ walkIdx = 0 /\ archIdx = 0 /\ deferred = {}
    /\ aarClosed = FALSE /\ outCreated = FALSE /\ mkdirDone = FALSE /\ javacRan = FALSE
    /\ srcFiles = <<>> /\ classTree = <<>> /\ jarIdx = 0 /\ jarEntries = <<>>
    /\ jarClosed = FALSE /\ jarErr = Nil /\ stepFailed = FALSE

AARInit ==
    /\ BuildN \in BOOLEAN
    /\ pkgs \in PkgLists(MaxPkgs)
    /\ androidArchs \in ArchLists(MaxArchs)
    /\ pc = "start" /\ err = Nil /\ entries = <<>> /\ files = {}
    /\ pkgIdx = 0 /\ walkIdx = 0 /\ archIdx = 1 /\ deferred = {}
    /\ aarClosed = FALSE /\ outCreated = FALSE /\ mkdirDone = FALSE /\ javacRan = FALSE
    /\ srcFiles = <<>> /\ classTree = <<>> /\ jarIdx = 0 /\ jarEntries = <<>>
    /\ jarClosed = FALSE /\ jarErr = Nil /\ stepFailed = FALSE

-----------------------------------------------------------------------------
(* BuildAAR up to the class archive *)

\* var out io.Writer = ioutil.Discard; if !flags.BuildN { f, err := os.Create ... }
AAR_Create ==
    /\ pc = "start"
    /\ IF BuildN
       THEN /\ pc' = "manifest"
            /\ UNCHANGED <<err, outCreated, handles, deferred, stepFailed>>
       ELSE \E ok \in BOOLEAN :
            IF ok
            THEN /\ outCreated' = TRUE
                 /\ handles' = handles \cup {OutHandle}
                 /\ deferred' = deferred \cup {OutHandle}
                 /\ pc' = "manifest"
                 /\ UNCHANGED <<err, stepFailed>>
            ELSE /\ err' = Error("create output")
                 /\ stepFailed' = TRUE
                 /\ pc' = "ret"
                 /\ UNCHANGED <<outCreated, handles, deferred>>
    /\ UNCHANGED <<aarIn, entries, aarLoop, aarClosed, jarState, apiVars, tcVars>>

\* w, err = aarwcreate(name); if err != nil { return err }
CreateEntry(at, name, next) ==
    /\ pc = at
    /\ \E ok \in BOOLEAN :
         /\ entries' = IF ok THEN Append(entries, name) ELSE entries
         /\ err' = IF ok THEN Nil ELSE Error("create entry")
         /\ stepFailed' = (stepFailed \/ ~ok)
         /\ pc' = AbortOnError(ok, next)
    /\ UNCHANGED <<aarIn, aarLoop, deferred, aarClosed, outCreated, jarState,
                   apiVars, tcVars, handles>>

AAR_Manifest == CreateEntry("manifest", ManifestName, "proguard")
AAR_Proguard == CreateEntry("proguard", ProguardName, "classes")
AAR_Classes  == CreateEntry("classes", ClassesName, "jar_src")

-----------------------------------------------------------------------------
(* BuildJar *)

JarReturn(e) ==
    /\ jarErr' = e
    /\ pc' = "jar_ret"

\* srcFiles: the placeholder, or the walk of srcDir
Jar_Src ==
    /\ pc = "jar_src"
    /\ IF BuildN
       THEN /\ srcFiles' = <<"*.java">>
            /\ pc' = "jar_mkdir"
            /\ UNCHANGED jarErr
       ELSE \E ok \in BOOLEAN, tree \in SrcTrees :
            IF ok
            THEN srcFiles' = tree /\ pc' = "jar_mkdir" /\ UNCHANGED jarErr
            ELSE JarReturn(Error("walk srcDir")) /\ UNCHANGED srcFiles
    /\ UNCHANGED <<aarIn, err, entries, aarLoop, deferred, aarClosed, outCreated,
                   mkdirDone, javacRan, classTree, jarIdx, jarEntries, jarClosed,
                   stepFailed, apiVars, tcVars, handles>>

\* if !flags.BuildN { if err := os.MkdirAll(dst, 0700); ... }
Jar_Mkdir ==
    /\ pc = "jar_mkdir"
    /\ IF BuildN
       THEN pc' = "jar_bootcp" /\ UNCHANGED <<mkdirDone, jarErr>>
       ELSE \E ok \in BOOLEAN :
            IF ok
            THEN mkdirDone' = TRUE /\ pc' = "jar_bootcp" /\ UNCHANGED jarErr
            ELSE JarReturn(Error("mkdir")) /\ UNCHANGED mkdirDone
    /\ UNCHANGED <<aarIn, err, entries, aarLoop, deferred, aarClosed, outCreated,
                   javacRan, srcFiles, classTree, jarIdx, jarEntries, jarClosed,
                   stepFailed, apiVars, tcVars, handles>>

\* bClspath, err := bootClasspath(): the call of AndroidAPIPath
Jar_BootClasspath ==
    /\ pc = "jar_bootcp"
    /\ apc = "idle"
    /\ apc' = "start"
    /\ pc' = "jar_bootcp_wait"
    /\ UNCHANGED <<aarIn, err, entries, aarLoop, deferred, aarClosed, outCreated,
                   jarState, stepFailed, dirEntries, apiLocals, tcVars, handles>>

\* ... and its return; if err != nil { return err }
Jar_BootClasspathReturn ==
    /\ pc = "jar_bootcp_wait"
    /\ apc = "done"
    /\ IF apiErr # Nil
       THEN JarReturn(apiErr)
       ELSE pc' = "jar_javac" /\ UNCHANGED jarErr
    /\ apc' = "idle" /\ fis' = <<>> /\ fiIdx' = 0
    /\ apiPath' = <<>> /\ apiVer' = 0 /\ apiErr' = Nil
    /\ UNCHANGED <<aarIn, err, entries, aarLoop, deferred, aarClosed, outCreated,
                   mkdirDone, javacRan, srcFiles, classTree, jarIdx, jarEntries,
                   jarClosed, stepFailed, dirEntries, tcVars, handles>>

\* RunCmd(&Flags{}, tmpdir, javac); then if flags.BuildN { return nil }
Jar_Javac ==
    /\ pc = "jar_javac"
    /\ LET runs == RunCmdExecutes(JavacFlagsBuildN) IN
       \E ok \in BOOLEAN, tree \in ClassTrees :
         /\ javacRan' = (javacRan \/ runs)
         /\ IF runs /\ ~ok
            THEN JarReturn(Error("javac")) /\ UNCHANGED <<classTree, jarIdx>>
            ELSE /\ classTree' = IF runs THEN tree ELSE <<>>
                 /\ IF BuildN
                    THEN JarReturn(Nil) /\ UNCHANGED jarIdx
                    ELSE pc' = "jar_manifest" /\ jarIdx' = 1 /\ UNCHANGED jarErr
    /\ UNCHANGED <<aarIn, err, entries, aarLoop, deferred, aarClosed, outCreated,
                   mkdirDone, srcFiles, jarEntries, jarClosed, stepFailed,
                   apiVars, tcVars, handles>>

\* jarw := zip.NewWriter(w); f, err := jarwcreate("META-INF/MANIFEST.MF")
Jar_Manifest ==
    /\ pc = "jar_manifest"
    /\ \E ok \in BOOLEAN :
         IF ok
         THEN /\ jarEntries' = Append(jarEntries, JarManifestName)
              /\ pc' = "jar_walk"
              /\ UNCHANGED jarErr
         ELSE JarReturn(Error("create entry")) /\ UNCHANGED jarEntries
    /\ UNCHANGED <<aarIn, err, entries, aarLoop, deferred, aarClosed, outCreated,
                   mkdirDone, javacRan, srcFiles, classTree, jarIdx, jarClosed,
                   stepFailed, apiVars, tcVars, handles>>

\* one call of the callback of filepath.Walk(dst, ...)
Jar_WalkFn ==
    /\ pc = "jar_walk"
    /\ jarIdx <= Len(classTree)
    /\ LET item == classTree[jarIdx]
           h == ClassHandle(jarIdx)
       IN \E walkOk, createOk, openOk, copyOk \in BOOLEAN :
          IF ~walkOk
          THEN JarReturn(Error("walk dst")) /\ UNCHANGED <<jarEntries, jarIdx, handles>>
          ELSE IF item.isDir
          THEN jarIdx' = jarIdx + 1 /\ UNCHANGED <<pc, jarErr, jarEntries, handles>>
          ELSE IF ~createOk
          THEN JarReturn(Error("create entry")) /\ UNCHANGED <<jarEntries, jarIdx, handles>>
          ELSE /\ jarEntries' = Append(jarEntries, <<item.rel>>)
               /\ IF ~openOk
                  THEN JarReturn(Error("open class")) /\ UNCHANGED <<jarIdx, handles>>
                  ELSE /\ handles' = ClosureDefer(handles \cup {h}, h)
                       /\ IF ~copyOk
                          THEN JarReturn(Error("copy class")) /\ UNCHANGED jarIdx
                          ELSE jarIdx' = jarIdx + 1 /\ UNCHANGED <<pc, jarErr>>
    /\ UNCHANGED <<aarIn, err, entries, aarLoop, deferred, aarClosed, outCreated,
                   mkdirDone, javacRan, srcFiles, classTree, jarClosed,
                   stepFailed, apiVars, tcVars>>

\* return jarw.Close()
Jar_Close ==
    /\ pc = "jar_walk"
    /\ jarIdx > Len(classTree)
    /\ \E ok \in BOOLEAN :
         /\ jarClosed' = ok
         /\ JarReturn(IF ok THEN Nil ELSE Error("close jar"))
    /\ UNCHANGED <<aarIn, err, entries, aarLoop, deferred, aarClosed, outCreated,
                   mkdirDone, javacRan, srcFiles, classTree, jarIdx, jarEntries,
                   stepFailed, apiVars, tcVars, handles>>

\* if err := BuildJar(flags, w, src, tmpdir); err != nil { return err }
\* files := map[string]string{}
AAR_BuildJarReturn ==
    /\ pc = "jar_ret"
    /\ IF jarErr # Nil
       THEN /\ err' = jarErr
            /\ stepFailed' = TRUE
            /\ pc' = "ret"
            /\ UNCHANGED <<files, pkgIdx>>
       ELSE /\ files' = {}
            /\ pkgIdx' = 1
            /\ pc' = "assets"
            /\ UNCHANGED <<err, stepFailed>>
    /\ UNCHANGED <<aarIn, entries, walkIdx, archIdx, deferred, aarClosed, outCreated,
                   jarState, apiVars, tcVars, handles>>

-----------------------------------------------------------------------------
(* BuildAAR: assets, native libraries, placeholders, close *)

\* the callback's result when aarwcreate fails: "if err != nil { return nil }"
CreateErrorResult(e) == Nil

\* the end of one callback that returned nil: Walk goes on, or the loop over
\* pkgs does
WalkAdvance(list) ==
    IF walkIdx = Len(list)
    THEN /\ walkIdx' = 0
         /\ pkgIdx' = pkgIdx + 1
         /\ pc' = IF pkgIdx + 1 > Len(pkgs) THEN AfterAssets ELSE "assets"
    ELSE /\ walkIdx' = walkIdx + 1
         /\ UNCHANGED <<pkgIdx, pc>>

\* assetsDir := ...; if fi, err := os.Stat(assetsDir); err == nil { ... }
\* else if !os.IsNotExist(err) { return err }
AAR_AssetsStat ==
    /\ pc = "assets"
    /\ walkIdx = 0
    /\ pkgIdx <= Len(pkgs)
    /\ \E statOk \in BOOLEAN :
         IF ~statOk
         THEN /\ err' = Error("stat assets")
              /\ stepFailed' = TRUE
              /\ pc' = "ret"
              /\ UNCHANGED <<pkgIdx, walkIdx>>
         ELSE IF pkgs[pkgIdx].assets = "dir"
         THEN /\ walkIdx' = 1
              /\ UNCHANGED <<err, stepFailed, pc, pkgIdx>>
         ELSE /\ pkgIdx' = pkgIdx + 1
              /\ pc' = IF pkgIdx + 1 > Len(pkgs) THEN AfterAssets ELSE "assets"
              /\ UNCHANGED <<err, stepFailed, walkIdx>>
    /\ UNCHANGED <<aarIn, entries, files, archIdx, deferred, aarClosed, outCreated,
                   jarState, apiVars, tcVars, handles>>

\* one call of the callback of filepath.Walk(assetsDir, ...), and, when it
\* returns an error, "if err != nil { return err }" after the Walk
AAR_AssetsWalkFn ==
    /\ pc = "assets"
    /\ walkIdx >= 1
    /\ LET pkg  == pkgs[pkgIdx]
           list == WalkList(pkg)
           item == list[walkIdx]
           name == AssetName(item.rel)
           h    == AssetHandle(pkgIdx, item.rel)
       IN \E walkOk, openOk, createOk, copyOk \in BOOLEAN :
          IF ~walkOk
          THEN /\ err' = Error("walk assets") /\ stepFailed' = TRUE /\ pc' = "ret"
               /\ UNCHANGED <<entries, files, pkgIdx, walkIdx, handles>>
          ELSE IF item.isDir
          THEN /\ WalkAdvance(list)
               /\ UNCHANGED <<err, stepFailed, entries, files, handles>>
          ELSE IF ~openOk
          THEN /\ err' = Error("open asset") /\ stepFailed' = TRUE /\ pc' = "ret"
               /\ UNCHANGED <<entries, files, pkgIdx, walkIdx, handles>>
          ELSE /\ handles' = ClosureDefer(handles \cup {h}, h)
               /\ IF Exists(files, name)
                  THEN /\ err' = ConflictError(pkg.ImportPath, name, Orig(files, name))
                       /\ pc' = "ret"
                       /\ UNCHANGED <<stepFailed, entries, files, pkgIdx, walkIdx>>
                  ELSE /\ files' = files \cup {[name |-> name, pkg |-> pkg.ImportPath]}
                       /\ IF ~createOk
                          THEN LET r == CreateErrorResult(Error("create entry")) IN
                               /\ stepFailed' = TRUE
                               /\ UNCHANGED entries
                               /\ IF r = Nil
                                  THEN WalkAdvance(list) /\ UNCHANGED err
                                  ELSE /\ err' = r /\ pc' = "ret"
                                       /\ UNCHANGED <<pkgIdx, walkIdx>>
                          ELSE /\ entries' = Append(entries, name)
                               /\ IF ~copyOk
                                  THEN /\ err' = Error("copy asset")
                                       /\ stepFailed' = TRUE
                                       /\ pc' = "ret"
                                       /\ UNCHANGED <<pkgIdx, walkIdx>>
                                  ELSE /\ WalkAdvance(list)
                                       /\ UNCHANGED <<err, stepFailed>>
    /\ UNCHANGED <<aarIn, archIdx, deferred, aarClosed, outCreated, jarState,
                   apiVars, tcVars>>

\* one iteration of "for _, arch := range androidArchs"
AAR_Jni ==
    /\ pc = "jni"
    /\ archIdx <= Len(androidArchs)
    /\ LET name == JniName(androidArchs[archIdx])
           h    == JniHandle(archIdx)
           next == IF archIdx + 1 > Len(androidArchs) THEN "rtxt" ELSE "jni"
       IN \E createOk, openOk, copyOk \in BOOLEAN :
          IF ~createOk
          THEN /\ err' = Error("create entry") /\ stepFailed' = TRUE /\ pc' = "ret"
               /\ UNCHANGED <<entries, archIdx, handles, deferred>>
          ELSE /\ entries' = Append(entries, name)
               /\ IF BuildN
                  THEN /\ archIdx' = archIdx + 1 /\ pc' = next /\ err' = Nil
                       /\ UNCHANGED <<stepFailed, handles, deferred>>
                  ELSE IF ~openOk
                  THEN /\ err' = Error("open library") /\ stepFailed' = TRUE /\ pc' = "ret"
                       /\ UNCHANGED <<archIdx, handles, deferred>>
                  ELSE /\ handles' = handles \cup {h}
                       /\ deferred' = deferred \cup {h}
                       /\ IF ~copyOk
                          THEN /\ err' = Error("copy library") /\ stepFailed' = TRUE
                               /\ pc' = "ret" /\ UNCHANGED archIdx
                          ELSE /\ archIdx' = archIdx + 1 /\ pc' = next /\ err' = Nil
                               /\ UNCHANGED stepFailed
    /\ UNCHANGED <<aarIn, files, pkgIdx, walkIdx, aarClosed, outCreated, jarState,
                   apiVars, tcVars>>

AAR_RTxt == CreateEntry("rtxt", RTxtName, "res")
AAR_Res  == CreateEntry("res", ResName, "close")

\* return aarw.Close()
AAR_Close ==
    /\ pc = "close"
    /\ \E ok \in BOOLEAN :
         /\ aarClosed' = ok
         /\ err' = IF ok THEN Nil ELSE Error("close aar")
         /\ stepFailed' = (stepFailed \/ ~ok)
    /\ pc' = "ret"
    /\ UNCHANGED <<aarIn, entries, aarLoop, deferred, outCreated, jarState,
                   apiVars, tcVars, handles>>

\* the deferred calls, at any return of BuildAAR:
\* defer r.Close(); defer func() { if cerr := f.Close(); err == nil { err = cerr } }()
AAR_Deferred ==
    /\ pc = "ret"
    /\ handles' = RunDeferred(handles, deferred)
    /\ IF OutHandle \in deferred
       THEN \E closeOk \in BOOLEAN :
            /\ err' = IF err = Nil /\ ~closeOk THEN Error("close output") ELSE err
            /\ stepFailed' = (stepFailed \/ ~closeOk)
       ELSE UNCHANGED <<err, stepFailed>>
    /\ pc' = "done"
    /\ UNCHANGED <<aarIn, entries, aarLoop, deferred, aarClosed, outCreated, jarState,
                   apiVars, tcVars>>

-----------------------------------------------------------------------------
(* Specifications *)

\* one call of BuildAAR, with its calls of BuildJar and AndroidAPIPath
Init ==
    /\ AARInit
    /\ dirEntries \in BuildDirectories
    /\ APIIdle
    /\ TCIdle
    /\ handles = {}

Next ==
    \/ AAR_Create \/ AAR_Manifest \/ AAR_Proguard \/ AAR_Classes
    \/ Jar_Src \/ Jar_Mkdir \/ Jar_BootClasspath \/ Jar_BootClasspathReturn
    \/ Jar_Javac \/ Jar_Manifest \/ Jar_WalkFn \/ Jar_Close
    \/ API_Open \/ API_Readdir \/ API_LoopStep \/ API_Return
    \/ AAR_BuildJarReturn \/ AAR_AssetsStat \/ AAR_AssetsWalkFn \/ AAR_Jni
    \/ AAR_RTxt \/ AAR_Res \/ AAR_Close \/ AAR_Deferred

Spec == Init /\ [][Next]_vars

\* one call of AndroidAPIPath
InitAPI ==
    /\ AARIdle
    /\ APIInit
    /\ TCIdle
    /\ handles = {}

NextAPI == API_Open \/ API_Readdir \/ API_LoopStep \/ API_Return

SpecAPI == InitAPI /\ [][NextAPI]_vars

\* one call of toolchainForArch
InitTC ==
    /\ AARIdle
    /\ dirEntries = {}
    /\ APIIdle
    /\ TCInit
    /\ handles = {}

NextTC == TC_Lookup \/ TC_NdkRoot \/ TC_HostTag

SpecTC == InitTC /\ [][NextTC]_vars

-----------------------------------------------------------------------------
(* What the claims speak of *)

Count(seq, x) == Cardinality({i \in DOMAIN seq : seq[i] = x})
IsAsset(name) == name[1] = "assets"
IsJni(name) == name[1] = "jni"

\* the asset names of the regular files under the assets tree of a package
AssetNamesOf(pkg) == {AssetName(pkg.assetFiles[i]) : i \in DOMAIN pkg.assetFiles}
\* the asset files of all packages, package after package
RECURSIVE AllAssetNames(_)
AllAssetNames(ps) ==
    IF ps = <<>> THEN <<>>
    ELSE [i \in DOMAIN Head(ps).assetFiles |-> AssetName(Head(ps).assetFiles[i])]
         \o AllAssetNames(Tail(ps))
JniNames == [i \in DOMAIN androidArchs |-> JniName(androidArchs[i])]

\* two places of the package list contribute the same asset name
CrossConflict ==
    \E k, l \in DOMAIN pkgs : k # l /\ AssetNamesOf(pkgs[k]) \cap AssetNamesOf(pkgs[l]) # {}
DifferentPackagesConflict ==
    \E k, l \in DOMAIN pkgs :
        /\ pkgs[k].ImportPath # pkgs[l].ImportPath
        /\ AssetNamesOf(pkgs[k]) \cap AssetNamesOf(pkgs[l]) # {}

\* a candidate of the platform locator, as section 4.2 of the design describes it
Qualifies(fi) ==
    /\ fi.isDir
    /\ HasPrefix(fi.name, AndroidPrefix)
    /\ ~Atoi(SubSeq(fi.name, Len(AndroidPrefix) + 1, Len(fi.name))).err
    /\ Atoi(SubSeq(fi.name, Len(AndroidPrefix) + 1, Len(fi.name))).n >= minAndroidAPI
    /\ fi.hasJar
Version(fi) == Atoi(SubSeq(fi.name, Len(AndroidPrefix) + 1, Len(fi.name))).n
Listed == apc = "done" /\ fiIdx > 0

-----------------------------------------------------------------------------
(* C1: a step of BuildAAR that returns an error aborts the assembly: from    *)
(* then on BuildAAR is returning (it creates no further entry) and its       *)
(* result is a non-nil error.                                                *)
C1_FailureAborts ==
    stepFailed => (pc \in {"ret", "done"} /\ err # Nil)

(* C2: asset names never repeat in the container; a conflict error names     *)
(* the path, the package being merged and the package that registered the    *)
(* path first; a package list in which two different packages hold the same  *)
(* asset path never ends in success, and ends in the conflict error when no  *)
(* step fails; when all asset paths are distinct and no step fails, BuildAAR *)
(* succeeds with exactly one entry for each asset file.                      *)
C2_AssetConflict ==
    /\ \A i, j \in DOMAIN entries :
          (i # j /\ IsAsset(entries[i])) => entries[i] # entries[j]
    /\ err.kind = "conflict" =>
          /\ err.pkg = pkgs[pkgIdx].ImportPath
          /\ err.name \in AssetNamesOf(pkgs[pkgIdx])
          /\ \E k \in 1..(pkgIdx - 1) :
                pkgs[k].ImportPath = err.orig /\ err.name \in AssetNamesOf(pkgs[k])
          /\ Count(entries, err.name) <= 1
    /\ (pc = "done" /\ DifferentPackagesConflict) => err # Nil
    /\ (pc = "done" /\ DifferentPackagesConflict /\ ~stepFailed) => err.kind = "conflict"
    /\ (pc = "done" /\ ~CrossConflict /\ ~stepFailed) =>
          /\ err = Nil
          /\ SelectSeq(entries, IsAsset) = AllAssetNames(pkgs)
          /\ \A k \in DOMAIN pkgs : \A n \in AssetNamesOf(pkgs[k]) : Count(entries, n) = 1

C2_Witness ==
    /\ pc = "done"
    /\ err.kind = "conflict"
    /\ err.pkg # err.orig
    /\ Count(entries, err.name) = 1

(* C3: at every point of the assembly the names of the entries created so    *)
(* far are pairwise distinct, whatever the packages and architectures.       *)
C3_EntryNamesDistinct ==
    \A i, j \in DOMAIN entries : i # j => entries[i] # entries[j]

(* C4: once the platforms directory is listed, AndroidAPIPath returns the    *)
(* path of a qualifying candidate of the highest version, never one below    *)
(* the floor, and the not-found error exactly when no candidate qualifies.   *)
C4_HighestQualifying ==
    Listed =>
       IF \E fi \in dirEntries : Qualifies(fi)
       THEN /\ apiErr = Nil
            /\ \E fi \in dirEntries :
                  /\ Qualifies(fi)
                  /\ apiPath = SdkDirName \o <<fi.name>>
                  /\ apiVer = Version(fi)
                  /\ Version(fi) >= minAndroidAPI
                  /\ \A g \in dirEntries : Qualifies(g) => Version(g) <= Version(fi)
       ELSE apiErr = Error("no platform") /\ apiPath = <<>>

C4_Witness ==
    /\ Listed
    /\ apiErr = Nil
    /\ \E a, b \in dirEntries : Qualifies(a) /\ Qualifies(b) /\ Version(a) < Version(b)
    /\ \E c \in dirEntries : c.isDir /\ c.hasJar /\ ~Qualifies(c)

\* the errors of a failing system call, zip write or compiler run
FaultKinds ==
    {"create output", "create entry", "walk srcDir", "mkdir", "open platforms",
     "readdir", "javac", "walk dst", "open class", "copy class", "close jar",
     "stat assets", "walk assets", "open asset", "copy asset", "open library",
     "copy library", "close aar", "close output"}

(* C5: in dry-run mode the assembly has no effect and succeeds: the external *)
(* compiler is not run, the scratch directory and the output file are not    *)
(* created, no container entry is written by BuildJar, and BuildAAR returns  *)
(* success unless a system call fails.                                       *)
C5_DryRunEffectFree ==
    BuildN =>
       /\ ~javacRan
       /\ ~mkdirDone
       /\ ~outCreated
       /\ jarEntries = <<>>
       /\ (pc = "done" /\ err # Nil) => err.kind \in FaultKinds

(* C6: when a real run of BuildAAR returns success, the container holds      *)
(* exactly the five fixed entries, one entry for each asset file of each     *)
(* package and one native-library entry for each requested architecture;     *)
(* every registered asset path is in the container exactly once.             *)
C6_RoundTrip ==
    (pc = "done" /\ ~BuildN /\ err = Nil) =>
       LET expected == <<ManifestName, ProguardName, ClassesName>> \o AllAssetNames(pkgs)
                       \o JniNames \o <<RTxtName, ResName>>
       IN /\ \A i \in DOMAIN expected : Count(entries, expected[i]) = Count(expected, expected[i])
          /\ \A i \in DOMAIN entries : Count(expected, entries[i]) = Count(entries, entries[i])
          /\ \A r \in files : Count(entries, r.name) = 1

(* C7: when BuildAAR, BuildJar or AndroidAPIPath has returned, no handle it  *)
(* opened is still open.                                                     *)
C7_HandlesReleased ==
    /\ pc = "done" => handles = {}
    /\ pc = "jar_ret" => handles \subseteq deferred
    /\ apc = "done" => SdkDirHandle \notin handles

C7_Witness ==
    /\ pc = "done"
    /\ err # Nil
    /\ OutHandle \in deferred
    /\ \E i \in DOMAIN androidArchs : JniHandle(i) \in deferred

\* the three checks of the toolchain resolver
SupportedArch == goarch \in {"arm", "arm64", "386", "amd64"}
RootLocated == ANDROID_HOME # <<>> /\ ndkDir = "dir"
HostSupported == GOARCH \in {"386", "amd64"}

(* C8: toolchainForArch returns an error and no toolchain when the           *)
(* architecture is unsupported, the installation root cannot be located or   *)
(* the host is unsupported; a toolchain it returns has its installation root *)
(* and host tag set; a failing call returns no toolchain at all.             *)
C8_ToolchainOrError ==
    tpc = "done" =>
       /\ (~SupportedArch \/ ~RootLocated \/ ~HostSupported) =>
             (tcErr # Nil /\ toolchain = NoToolchain)
       /\ tcErr # Nil => toolchain = NoToolchain
       /\ tcErr = Nil =>
             /\ SupportedArch /\ RootLocated /\ HostSupported
             /\ toolchain.arch = ToolchainTable[goarch].arch
             /\ toolchain.ndkRoot = ANDROID_HOME \o <<"ndk-bundle">>
             /\ toolchain.hostTag # <<>>

C8_Witness ==
    /\ tpc = "done"
    /\ SupportedArch /\ RootLocated /\ ~HostSupported
    /\ tcErr # Nil

\* the place of an entry in the fixed order of the assembly
Phase(name) ==
    CASE name = ManifestName -> 1
      [] name = ProguardName -> 2
      [] name = ClassesName  -> 3
      [] IsAsset(name)       -> 4
      [] IsJni(name)         -> 5
      [] name = RTxtName     -> 6
      [] name = ResName      -> 7
NotAsset(name) == ~IsAsset(name)
ExpectedFixed ==
    <<ManifestName, ProguardName, ClassesName>> \o JniNames \o <<RTxtName, ResName>>
\* the place in pkgs of the package that owns an asset entry
PkgPlace(name) ==
    CHOOSE k \in DOMAIN pkgs :
        /\ pkgs[k].ImportPath = Orig(files, name)
        /\ \A l \in 1..(k - 1) : pkgs[l].ImportPath # Orig(files, name)

\* the order of the entries created so far, and what a finalized container holds
LinearOrder ==
    /\ \A i, j \in DOMAIN entries : i < j => Phase(entries[i]) <= Phase(entries[j])
    /\ LET fixed == SelectSeq(entries, NotAsset) IN
          /\ Len(fixed) <= Len(ExpectedFixed)
          /\ fixed = SubSeq(ExpectedFixed, 1, Len(fixed))
    /\ \A i, j \in DOMAIN entries :
          (i < j /\ IsAsset(entries[i]) /\ IsAsset(entries[j])) =>
              PkgPlace(entries[i]) <= PkgPlace(entries[j])
    /\ aarClosed => SelectSeq(entries, NotAsset) = ExpectedFixed

FixedOrder(dir) == CHOOSE o \in Orders(dir) : TRUE

(* C10: the result of AndroidAPIPath does not depend on the order in which   *)
(* Readdir lists the directory: any two listing orders of the same directory *)
(* give the same path.                                                       *)
C10_OrderIndependentPath ==
    Listed => ScanAll(ScanStart, FixedOrder(dirEntries)).apiPath = apiPath

NoTies ==
    \A a, b \in dirEntries :
        (Qualifies(a) /\ Qualifies(b) /\ a # b) => Version(a) # Version(b)

(* C10, amended: any two listing orders of the same directory give the same  *)
(* version, and the same path when no two qualifying candidates have the     *)
(* same version.                                                             *)
C10_OrderIndependentVersion ==
    Listed =>
       LET other == ScanAll(ScanStart, FixedOrder(dirEntries)) IN
       /\ other.apiVer = apiVer
       /\ NoTies => other.apiPath = apiPath

C10_Witness ==
    /\ Listed
    /\ apiErr = Nil
    /\ Len(fis) >= 2
    /\ Qualifies(fis[1]) /\ Qualifies(fis[2])
    /\ Version(fis[1]) > Version(fis[2])
    /\ NoTies

====
